---------------------------- MODULE Spec2Model ----------------------------
(***************************************************************************)
(* A model of the table engine of linkedin_prospecting_csv/csv_ops.py.     *)
(*                                                                         *)
(* The durable state is the CSV file at csv_path (and, for export_segment, *)
(* the file at output_csv).  Every operation loads the whole file into a   *)
(* data frame, transforms it and returns a result or writes a file.  The   *)
(* pandas calls the code makes (read_csv, to_csv, concat, astype(str),     *)
(* str.strip, drop_duplicates, reindex, to_numeric, str.contains,          *)
(* sort_values, head, fillna, value_counts) are modelled by what they do   *)
(* to cells: a CSV cell is a text, a loaded cell is NaN, a string or a     *)
(* number.                                                                 *)
(*                                                                         *)
(* A text is a sequence of one-character strings.                          *)
(***************************************************************************)
EXTENDS Integers, Sequences, FiniteSets, TLC

VARIABLES file, out, last

vars == <<file, out, last>>

----------------------------------------------------------------------------
(* Bounds of the model. *)

\* rows of the file at csv_path before the first call (append/deduplicate runs)
MaxInitRows == 2
\* records in one batch handed to append_profiles_to_csv
MaxBatch == 2
\* appends are only tried while the file and the batch together stay this small
MaxRows == 4
\* rows of the file the query operations read
MaxQueryRows == 2
\* rows of a file that has all five domain columns
MaxWideRows == 1

----------------------------------------------------------------------------
(* Texts. *)

Range(s) == {s[i] : i \in DOMAIN s}

SeqsUpTo(S, n) == UNION {[1..k -> S] : k \in 0..n}

Digits == <<"0", "1", "2", "3", "4", "5", "6", "7", "8", "9">>

IsDigit(c) == c \in Range(Digits)

DigitVal(c) == (CHOOSE i \in DOMAIN Digits : Digits[i] = c) - 1

\* str.lower() on the letters the model uses; every other character is itself
LowerChar(c) ==
    CASE c = "A" -> "a"
      [] c = "B" -> "b"
      [] c = "M" -> "m"
      [] c = "N" -> "n"
      [] c = "Y" -> "y"
      [] c = "E" -> "e"
      [] c = "S" -> "s"
      [] c = "O" -> "o"
      [] OTHER -> c

Lower(t) == [i \in DOMAIN t |-> LowerChar(t[i])]

\* the decimal text of a natural number, as str(int) gives it
RECURSIVE IntToText(_)
IntToText(n) ==
    IF n < 10 THEN <<Digits[n + 1]>>
    ELSE Append(IntToText(n \div 10), Digits[(n % 10) + 1])

\* the text is a non-empty run of decimal digits
IsInt(t) == Len(t) > 0 /\ \A i \in DOMAIN t : IsDigit(t[i])

\* int(text) of a run of decimal digits
RECURSIVE ParseInt(_)
ParseInt(t) ==
    IF Len(t) = 0 THEN 0
    ELSE 10 * ParseInt(SubSeq(t, 1, Len(t) - 1)) + DigitVal(t[Len(t)])

\* str.strip(): leading and trailing blanks removed
RECURSIVE Strip(_)
Strip(t) ==
    IF Len(t) = 0 THEN t
    ELSE IF t[1] = " " THEN Strip(Tail(t))
    ELSE IF t[Len(t)] = " " THEN Strip(SubSeq(t, 1, Len(t) - 1))
    ELSE t

\* term occurs in text as a literal substring (str.contains(..., regex=False), `in`)
Contains(text, term) ==
    \E s \in 0..(Len(text) - Len(term)) :
        \A k \in 1..Len(term) : text[s + k] = term[k]

\* text.startswith(prefix)
StartsWith(text, prefix) ==
    /\ Len(prefix) <= Len(text)
    /\ \A k \in 1..Len(prefix) : text[k] = prefix[k]

----------------------------------------------------------------------------
(* Cells of a data frame. *)

NaN == [k |-> "nan", s |-> <<>>, n |-> 0]

Str(t) == [k |-> "str", s |-> t, n |-> 0]

\* a number together with the text str() gives for it in its column
Num(i, t) == [k |-> "num", s |-> t, n |-> i]

IsNull(v) == v.k = "nan"

\* the cells read_csv takes for missing values, among the texts of the model
NaValues == {<<>>, <<"n", "a", "n">>, <<"N", "A">>}

IndexOf(cols, c) == CHOOSE j \in DOMAIN cols : cols[j] = c

HasCol(df, c) == c \in Range(df.cols)

Column(df, c) == [i \in DOMAIN df.rows |-> df.rows[i][IndexOf(df.cols, c)]]

----------------------------------------------------------------------------
(* Files and their codec. *)

NoFile == [exists |-> FALSE, cols |-> <<>>, rows |-> <<>>]

CsvFile(cols, rows) == [exists |-> TRUE, cols |-> cols, rows |-> rows]

\* pd.read_csv(path): the header gives the columns; a column whose cells are all
\* missing or integers is numeric (float64, printed with ".0", once a cell is
\* missing), any other column holds strings; missing cells are NaN
read_csv(f) ==
    LET cells(j) == {f.rows[i][j] : i \in DOMAIN f.rows}
        numeric == [j \in DOMAIN f.cols |->
                      /\ f.rows # <<>>
                      /\ \A t \in cells(j) : t \in NaValues \/ IsInt(t)]
        float == [j \in DOMAIN f.cols |-> \E t \in cells(j) : t \in NaValues]
        load(j, t) ==
            IF t \in NaValues THEN NaN
            ELSE IF numeric[j]
                 THEN Num(ParseInt(t),
                          IF float[j]
                          THEN IntToText(ParseInt(t)) \o <<".", "0">>
                          ELSE IntToText(ParseInt(t)))
                 ELSE Str(t)
    IN  [cols |-> f.cols,
         rows |-> [i \in DOMAIN f.rows |->
                     [j \in DOMAIN f.cols |-> load(j, f.rows[i][j])]]]

\* df.to_csv(path, index=False): NaN is written as an empty cell, every other
\* cell as its text
to_csv(df) ==
    CsvFile(df.cols,
            [i \in DOMAIN df.rows |->
               [j \in DOMAIN df.cols |->
                  IF IsNull(df.rows[i][j]) THEN <<>> ELSE df.rows[i][j].s]])

\* pd.DataFrame(profiles) for records that all carry the columns bcols
DataFrame(bcols, brows) ==
    [cols |-> bcols,
     rows |-> [i \in DOMAIN brows |-> [j \in DOMAIN bcols |-> Str(brows[i][j])]]]

EmptyFrame == [cols |-> <<>>, rows |-> <<>>]

\* the cell of a row under column c, NaN when the frame has no such column
CellOr(df, row, c) == IF HasCol(df, c) THEN row[IndexOf(df.cols, c)] ELSE NaN

\* pd.concat([a, b], ignore_index=True): a's columns, then b's new ones; the
\* rows of a, then the rows of b; NaN where a frame lacks a column
concat(a, b) ==
    LET extra == SelectSeq(b.cols, LAMBDA c : ~HasCol(a, c))
        cols == a.cols \o extra
        widen(df, row) == [j \in DOMAIN cols |-> CellOr(df, row, cols[j])]
    IN  [cols |-> cols,
         rows |-> [i \in DOMAIN a.rows |-> widen(a, a.rows[i])]
                  \o [i \in DOMAIN b.rows |-> widen(b, b.rows[i])]]

\* df.reindex(columns=columns): exactly these columns, NaN for a new one
reindex(df, columns) ==
    [cols |-> columns,
     rows |-> [i \in DOMAIN df.rows |->
                 [j \in DOMAIN columns |-> CellOr(df, df.rows[i], columns[j])]]]

\* astype(str) of one cell: NaN becomes the text "nan"
astype_str(v) == IF IsNull(v) THEN <<"n", "a", "n">> ELSE v.s

\* df[c] = df[c].astype(str).str.strip()
StripColumn(df, c) ==
    LET j == IndexOf(df.cols, c)
    IN  [df EXCEPT !.rows =
           [i \in DOMAIN df.rows |->
              [df.rows[i] EXCEPT ![j] = Str(Strip(astype_str(df.rows[i][j])))]]]

\* the rows at the positions idx keeps, in order
RECURSIVE KeepRows(_, _, _)
KeepRows(rows, keepIdx, i) ==
    IF i > Len(rows) THEN <<>>
    ELSE (IF i \in keepIdx THEN <<rows[i]>> ELSE <<>>)
         \o KeepRows(rows, keepIdx, i + 1)

DropFirst(df, c) ==
    LET j == IndexOf(df.cols, c)
        keepIdx == {i \in DOMAIN df.rows :
                      \A h \in 1..(i - 1) : df.rows[h][j] # df.rows[i][j]}
    IN  [df EXCEPT !.rows = KeepRows(df.rows, keepIdx, 1)]

DropLast(df, c) ==
    LET j == IndexOf(df.cols, c)
        keepIdx == {i \in DOMAIN df.rows :
                      \A h \in (i + 1)..Len(df.rows) : df.rows[h][j] # df.rows[i][j]}
    IN  [df EXCEPT !.rows = KeepRows(df.rows, keepIdx, 1)]

\* a drop_duplicates that keeps the last occurrence whatever keep says
drop_duplicates_keeping_last(df, c, keep) == DropLast(df, c)

\* df.drop_duplicates(subset=[c], keep=keep)
drop_duplicates(df, c, keep) ==
    IF keep = "first" THEN DropFirst(df, c) ELSE DropLast(df, c)


----------------------------------------------------------------------------
(* append_profiles_to_csv and deduplicate_csv. *)

\* append_profiles_to_csv(csv_path, profiles, dedupe_column) on the file f, for a
\* batch whose records all carry the columns bcols: the file written and the
\* counters returned
append_profiles_to_csv(f, bcols, brows, dedupe_column) ==
    LET new_df == DataFrame(bcols, brows)
        existing_df == IF f.exists THEN read_csv(f) ELSE EmptyFrame
        concatenated == IF f.exists THEN concat(existing_df, new_df) ELSE new_df
        columns == IF f.exists THEN existing_df.cols ELSE new_df.cols
        combined_df ==
            IF HasCol(concatenated, dedupe_column)
            THEN drop_duplicates(StripColumn(concatenated, dedupe_column),
                                 dedupe_column, "first")
            ELSE concatenated
        final_count == Len(combined_df.rows)
        added == final_count - Len(existing_df.rows)
        skipped == Len(brows) - added
    IN  [file |-> to_csv(reindex(combined_df, columns)),
         ret |-> [added |-> added,
                  skipped_duplicates |-> skipped,
                  total_profiles |-> final_count]]

\* deduplicate_csv(csv_path, dedupe_column, keep) on an existing file f
deduplicate_csv(f, dedupe_column, keep) ==
    LET df == read_csv(f)
        original_count == Len(df.rows)
        deduped ==
            IF HasCol(df, dedupe_column)
            THEN drop_duplicates(StripColumn(df, dedupe_column), dedupe_column, keep)
            ELSE df
        final_count == Len(deduped.rows)
    IN  [file |-> to_csv(deduped),
         ret |-> [original_count |-> original_count,
                  duplicates_removed |-> original_count - final_count,
                  final_count |-> final_count]]

FileNotFound == [error |-> "File not found"]

----------------------------------------------------------------------------
(* The inputs of the append/deduplicate runs. *)

URL == "LinkedIn URL"

\* dedupe keys in the file before the first call: a key, the same key with a
\* leading blank, an empty key
KeyTexts == {<<"a">>, <<" ", "a">>, <<>>}

\* dedupe keys of the records of a batch: a key with a leading blank, an empty key
BatchKeyTexts == {<<" ", "a">>, <<>>}

NameTexts == {<<"x">>, <<"y">>}

\* the rows with the columns cols whose dedupe keys are among keys
RowsOf(cols, keys) ==
    {r \in [DOMAIN cols -> keys \cup NameTexts] :
        \A j \in DOMAIN cols : r[j] \in (IF cols[j] = URL THEN keys ELSE NameTexts)}

\* column layouts of the file before the first call, and of a batch
FileLayouts == {<<URL, "Name">>, <<"Name">>}

BatchLayouts == {<<URL, "Name">>, <<"Name">>}

InitFiles ==
    {NoFile} \cup
    {CsvFile(cols, rows) : <<cols, rows>> \in
        UNION {{<<l, rs>> : rs \in SeqsUpTo(RowsOf(l, KeyTexts), MaxInitRows)} : l \in FileLayouts}}

NoCall == [op |-> "none", args |-> <<>>, ret |-> <<>>]

Init ==
    /\ file \in InitFiles
    /\ out = NoFile
    /\ last = NoCall

\* a call of append_profiles_to_csv with the default dedupe column
AppendProfiles ==
    \E bcols \in BatchLayouts :
      \E brows \in SeqsUpTo(RowsOf(bcols, BatchKeyTexts), MaxBatch) \ {<<>>} :
        LET r == append_profiles_to_csv(file, bcols, brows, URL)
        IN  /\ Len(file.rows) + Len(brows) <= MaxRows
            /\ file' = r.file
            /\ last' = [op |-> "append",
                        args |-> [bcols |-> bcols, brows |-> brows],
                        ret |-> r.ret]
            /\ UNCHANGED out

\* a call of deduplicate_csv with the default dedupe column
Deduplicate ==
    \E keep \in {"first", "last"} :
        /\ last' = [op |-> "deduplicate",
                    args |-> [keep |-> keep],
                    ret |-> IF file.exists
                            THEN deduplicate_csv(file, URL, keep).ret
                            ELSE FileNotFound]
        /\ file' = IF file.exists THEN deduplicate_csv(file, URL, keep).file ELSE file
        /\ UNCHANGED out

Next == AppendProfiles \/ Deduplicate

Spec == Init /\ [][Next]_vars

----------------------------------------------------------------------------
(* Properties of append_profiles_to_csv and deduplicate_csv, under Spec. *)

NanText == <<"n", "a", "n">>

\* the dedupe key the code compares for a cell of the file: the trimmed text,
\* and "nan" for a missing cell
KeyOfCell(t) == IF t \in NaValues THEN NanText ELSE Strip(t)

\* the step is a call of append_profiles_to_csv
AppendStep == last'.op = "append"

\* C1: appending a batch of N records and then the identical batch again yields
\* added = 0 and skipped_duplicates = N on the second call, and the second
\* call's total_profiles is the row count of the file after the first call.
\* (Stated for the batches and the files that carry the dedupe column, where the
\* code does deduplicate and the keys are written to the file.)
C1_AppendIdempotent ==
    [][(/\ last.op = "append"
        /\ AppendStep
        /\ last'.args = last.args
        /\ URL \in Range(last.args.bcols)
        /\ URL \in Range(file.cols))
        => /\ last'.ret.added = 0
           /\ last'.ret.skipped_duplicates = Len(last.args.brows)
           /\ last'.ret.total_profiles = Len(file.rows)]_vars

\* the rows a call works on, in the order the code concatenates them (the rows
\* of the file, then the records of the batch laid out in the file's columns),
\* each with the dedupe key the code compares
SourceRows(f, call) ==
    LET ju == IndexOf(f.cols, URL)
        old == [i \in DOMAIN f.rows |-> [f.rows[i] EXCEPT ![ju] = KeyOfCell(@)]]
        bcell(rec, c) ==
            IF c \in Range(call.args.bcols)
            THEN (IF c = URL THEN Strip(rec[IndexOf(call.args.bcols, c)])
                  ELSE rec[IndexOf(call.args.bcols, c)])
            ELSE (IF c = URL THEN NanText ELSE <<>>)
        new == IF call.op = "append"
               THEN [i \in DOMAIN call.args.brows |->
                       [j \in DOMAIN f.cols |-> bcell(call.args.brows[i], f.cols[j])]]
               ELSE <<>>
    IN  old \o new

StillPresent(row, cols, f) ==
    \E h \in DOMAIN f.rows :
       \A j \in DOMAIN cols :
          IF cols[j] = URL
          THEN KeyOfCell(f.rows[h][j]) = KeyOfCell(row[j])
          ELSE f.rows[h][j] = row[j]

\* C10: for every existing file content and every batch, append returns
\* added >= 0 and 0 <= skipped_duplicates <= len(profiles), total_profiles is at
\* least the row count before the call, and every row the file held before the
\* call is still in it.
C10_AppendNeverShrinks ==
    [][AppendStep
        => /\ last'.ret.added >= 0
           /\ last'.ret.skipped_duplicates >= 0
           /\ last'.ret.skipped_duplicates <= Len(last'.args.brows)
           /\ last'.ret.total_profiles >= Len(file.rows)
           /\ \A i \in DOMAIN file.rows :
                 StillPresent(file.rows[i], file.cols, file')]_vars

----------------------------------------------------------------------------
(* filter_profiles. *)

SCORE == "v2 Score"
LOCATION == "Location"
COMPANY == "Company"
ROLE == "CURRENT Role Mention"
DATE == "Found Date"

\* the frame read from f, with the columns of dtype object (the ones the .str
\* accessor works on) and no exception raised so far
Loaded(f) ==
    LET df == read_csv(f)
    IN  [cols |-> df.cols,
         rows |-> df.rows,
         obj |-> {c \in Range(df.cols) :
                    \/ df.rows = <<>>
                    \/ \E i \in DOMAIN df.rows : Column(df, c)[i].k = "str"},
         err |-> "ok"]

Raise(df, e) == [df EXCEPT !.err = e, !.rows = <<>>]

\* the rows of df that satisfy keep, in order
FilterRows(df, keep(_)) == [df EXCEPT !.rows = SelectSeq(df.rows, keep)]

\* pd.to_numeric(x, errors='coerce') of one cell: a float64 cell or NaN
to_numeric(v) ==
    IF v.k = "num" THEN v
    ELSE IF v.k = "str" /\ IsInt(v.s)
         THEN Num(ParseInt(v.s), IntToText(ParseInt(v.s)) \o <<".", "0">>)
         ELSE NaN

\* df[c] = pd.to_numeric(df[c], errors='coerce')
NumericColumn(df, c) ==
    LET j == IndexOf(df.cols, c)
    IN  [df EXCEPT !.rows =
           [i \in DOMAIN df.rows |->
              [df.rows[i] EXCEPT ![j] = to_numeric(df.rows[i][j])]]]

\* '|'.join(patterns)
RECURSIVE JoinBar(_)
JoinBar(patterns) ==
    IF Len(patterns) = 0 THEN <<>>
    ELSE IF Len(patterns) = 1 THEN patterns[1]
    ELSE patterns[1] \o <<"|">> \o JoinBar(Tail(patterns))

\* the alternatives of a regular expression: its parts between the '|'
RECURSIVE Alternatives(_)
Alternatives(pattern) ==
    IF \A i \in DOMAIN pattern : pattern[i] # "|" THEN {pattern}
    ELSE LET b == CHOOSE i \in DOMAIN pattern :
                     pattern[i] = "|" /\ \A h \in 1..(i - 1) : pattern[h] # "|"
         IN  {SubSeq(pattern, 1, b - 1)}
             \cup Alternatives(SubSeq(pattern, b + 1, Len(pattern)))

\* re.search(pattern, text) for patterns made of literal characters, '.' (any
\* character) and '|' (alternation), ignoring case when case is FALSE
RegexSearch(pattern, text, case) ==
    \E alt \in Alternatives(pattern) :
       \E s \in 0..(Len(text) - Len(alt)) :
          \A k \in 1..Len(alt) :
             \/ alt[k] = "."
             \/ IF case THEN alt[k] = text[s + k]
                ELSE LowerChar(alt[k]) = LowerChar(text[s + k])

\* df = df[df[c].str.contains('|'.join(patterns), case=False, na=False)]
ContainsStage(df, c, patterns) ==
    IF df.err # "ok" \/ patterns = <<>> THEN df
    ELSE IF ~HasCol(df, c) THEN Raise(df, "KeyError")
    ELSE IF c \notin df.obj THEN Raise(df, "AttributeError")
    ELSE LET j == IndexOf(df.cols, c)
         IN  FilterRows(df, LAMBDA r :
                 r[j].k = "str" /\ RegexSearch(JoinBar(patterns), r[j].s, FALSE))

\* a min_score filter that lets the rows without a number through
MinScoreStage_keeping_nan(df, min_score) ==
    IF df.err # "ok" \/ min_score = <<>> THEN df
    ELSE IF ~HasCol(df, SCORE) THEN Raise(df, "KeyError")
    ELSE LET j == IndexOf(df.cols, SCORE)
         IN  FilterRows(df, LAMBDA r : ~(r[j].k = "num" /\ r[j].n < min_score[1]))

\* df = df[df['v2 Score'] >= min_score]
MinScoreStage(df, min_score) ==
    IF df.err # "ok" \/ min_score = <<>> THEN df
    ELSE IF ~HasCol(df, SCORE) THEN Raise(df, "KeyError")
    ELSE LET j == IndexOf(df.cols, SCORE)
         IN  FilterRows(df, LAMBDA r : r[j].k = "num" /\ r[j].n >= min_score[1])

\* df = df[df['v2 Score'] <= max_score]
MaxScoreStage(df, max_score) ==
    IF df.err # "ok" \/ max_score = <<>> THEN df
    ELSE IF ~HasCol(df, SCORE) THEN Raise(df, "KeyError")
    ELSE LET j == IndexOf(df.cols, SCORE)
         IN  FilterRows(df, LAMBDA r : r[j].k = "num" /\ r[j].n <= max_score[1])

\* df = df[df['CURRENT Role Mention'].str.startswith('YES', na=False)]
RoleStage(df, current_role_only) ==
    IF df.err # "ok" \/ ~current_role_only THEN df
    ELSE IF ~HasCol(df, ROLE) THEN Raise(df, "KeyError")
    ELSE IF ROLE \notin df.obj THEN Raise(df, "AttributeError")
    ELSE LET j == IndexOf(df.cols, ROLE)
         IN  FilterRows(df, LAMBDA r :
                 r[j].k = "str" /\ StartsWith(r[j].s, <<"Y", "E", "S">>))

\* the text is a date written YYYY-MM-DD (the lengths of the months are not
\* modelled: the dates of the model are days every month has)
IsIsoDate(t) ==
    /\ Len(t) = 10
    /\ t[5] = "-" /\ t[8] = "-"
    /\ \A i \in {1, 2, 3, 4, 6, 7, 9, 10} : IsDigit(t[i])
    /\ ParseInt(SubSeq(t, 6, 7)) \in 1..12
    /\ ParseInt(SubSeq(t, 9, 10)) \in 1..31

\* pd.to_datetime of a date written YYYY-MM-DD, as a number that orders dates
DateKey(t) ==
    10000 * ParseInt(SubSeq(t, 1, 4)) + 100 * ParseInt(SubSeq(t, 6, 7))
        + ParseInt(SubSeq(t, 9, 10))

\* n written with at least w digits
RECURSIVE Pad(_, _)
Pad(t, w) == IF Len(t) >= w THEN t ELSE Pad(<<"0">> \o t, w)

\* strftime('%Y-%m-%d')
FormatDate(d) ==
    Pad(IntToText(d \div 10000), 4) \o <<"-">>
        \o Pad(IntToText((d \div 100) % 100), 2) \o <<"-">>
        \o Pad(IntToText(d % 100), 2)

\* pd.to_datetime(x, errors='coerce') of one cell: a date, or NaT
to_datetime(v) ==
    IF v.k = "str" /\ IsIsoDate(v.s) THEN Num(DateKey(v.s), FormatDate(DateKey(v.s)))
    ELSE NaN

\* df['Found Date'] = pd.to_datetime(df['Found Date'], errors='coerce');
\* df = df[df['Found Date'] > pd.to_datetime(found_after_date)];
\* df['Found Date'] = df['Found Date'].dt.strftime('%Y-%m-%d')
DateStage(df, found_after_date) ==
    IF df.err # "ok" \/ found_after_date = <<>> THEN df
    ELSE IF ~HasCol(df, DATE) THEN Raise(df, "KeyError")
    ELSE LET j == IndexOf(df.cols, DATE)
             kept == SelectSeq(df.rows, LAMBDA r :
                        /\ ~IsNull(to_datetime(r[j]))
                        /\ to_datetime(r[j]).n > DateKey(found_after_date[1]))
         IN  [df EXCEPT !.rows =
                [i \in DOMAIN kept |->
                   [kept[i] EXCEPT ![j] = Str(to_datetime(kept[i][j]).s)]]]

\* the sequence without its i-th element
RemoveAt(rows, i) == SubSeq(rows, 1, i - 1) \o SubSeq(rows, i + 1, Len(rows))

\* rows sorted by the number in column j, largest first, NaN last, rows with
\* equal numbers in their given order
RECURSIVE SortDescending(_, _)
SortDescending(rows, j) ==
    IF rows = <<>> THEN <<>>
    ELSE LET better(a, b) ==
                 \/ ~IsNull(rows[a][j]) /\ IsNull(rows[b][j])
                 \/ ~IsNull(rows[a][j]) /\ ~IsNull(rows[b][j])
                                        /\ rows[a][j].n > rows[b][j].n
             first == CHOOSE i \in DOMAIN rows :
                         /\ \A h \in DOMAIN rows : ~better(h, i)
                         /\ \A h \in 1..(i - 1) : better(i, h)
         IN  <<rows[first]>> \o SortDescending(RemoveAt(rows, first), j)

\* if 'v2 Score' in df.columns: df = df.sort_values(by='v2 Score', ascending=False)
SortStage(df) ==
    IF df.err # "ok" \/ ~HasCol(df, SCORE) THEN df
    ELSE [df EXCEPT !.rows = SortDescending(df.rows, IndexOf(df.cols, SCORE))]

\* df.head(n) for n >= 0
head(rows, n) == SubSeq(rows, 1, IF n < Len(rows) THEN n ELSE Len(rows))

\* if limit: df = df.head(limit)
LimitStage(df, limit) ==
    IF df.err # "ok" \/ limit = <<>> \/ limit = <<0>> THEN df
    ELSE [df EXCEPT !.rows = head(df.rows, limit[1])]

\* df.fillna("").to_dict(orient='records'): the rows, NaN replaced by ""
Records(df) ==
    [status |-> df.err,
     cols |-> IF df.err = "ok" THEN df.cols ELSE <<>>,
     rows |-> [i \in DOMAIN df.rows |->
                 [j \in DOMAIN df.cols |->
                    IF IsNull(df.rows[i][j]) THEN Str(<<>>) ELSE df.rows[i][j]]]]

NoRecords == [status |-> "ok", cols |-> <<>>, rows |-> <<>>]

\* filter_profiles(csv_path, min_score, max_score, locations, companies,
\* current_role_only, found_after_date, limit); an optional argument is <<>>
\* when it is not given and <<value>> when it is, a list is the list
filter_profiles(f, a) ==
    IF ~f.exists THEN NoRecords
    ELSE LET df0 == Loaded(f)
             df1 == IF HasCol(df0, SCORE) THEN NumericColumn(df0, SCORE) ELSE df0
             df2 == MaxScoreStage(MinScoreStage(df1, a.min_score), a.max_score)
             df3 == ContainsStage(df2, LOCATION, a.locations)
             df4 == ContainsStage(df3, COMPANY, a.companies)
             df5 == RoleStage(df4, a.current_role_only)
             df6 == DateStage(df5, a.found_after_date)
         IN  Records(LimitStage(SortStage(df6), a.limit))

----------------------------------------------------------------------------
(* export_segment. *)

\* the requested columns that are present, in the order of the frame
existing_cols_in_frame_order(columns, df) ==
    SelectSeq(df.cols, LAMBDA c : c \in Range(columns))

\* existing_cols = [c for c in columns if c in df.columns]
existing_cols(columns, df) == SelectSeq(columns, LAMBDA c : HasCol(df, c))

\* df[cols]
Project(df, cols) == reindex(df, cols)

\* export_segment from `if not profiles` on: the destination file afterwards
\* and the result, for the records filter_profiles returned
WriteSegment(profiles, o, columns) ==
    IF profiles.status # "ok"
    THEN [out |-> o,
          ret |-> [status |-> profiles.status,
                   profiles_exported |-> 0,
                   columns_included |-> <<>>]]
    ELSE IF profiles.rows = <<>>
    THEN [out |-> o,
          ret |-> [status |-> "ok",
                   profiles_exported |-> 0,
                   columns_included |-> <<>>]]
    ELSE LET cols == IF columns # <<>>
                     THEN existing_cols(columns, profiles)
                     ELSE profiles.cols
         IN  [out |-> to_csv(Project(profiles, cols)),
              ret |-> [status |-> "ok",
                       profiles_exported |-> Len(profiles.rows),
                       columns_included |-> cols]]

\* export_segment(source_csv, output_csv, min_score, locations, companies,
\* columns) on the source file f and the destination file o: the destination
\* file afterwards and the result (an exception of filter_profiles is the
\* status of the result, and nothing is written)
export_segment(f, o, a) ==
    WriteSegment(filter_profiles(f, [min_score |-> a.min_score,
                                     max_score |-> <<>>,
                                     locations |-> a.locations,
                                     companies |-> a.companies,
                                     current_role_only |-> FALSE,
                                     found_after_date |-> <<>>,
                                     limit |-> <<>>]),
                 o, a.columns)

----------------------------------------------------------------------------
(* The inputs of the filter/export runs. *)

Twelve == <<"1", "2">>
Seven == <<"7">>
Word == <<"x">>
Day1 == <<"2", "0", "2", "6", "-", "0", "2", "-", "1", "5">>
Day2 == <<"2", "0", "2", "6", "-", "0", "2", "-", "1", "6">>

\* a file layout: its columns, the texts a cell of each column can hold, and
\* the most rows it has
ScoreLocation ==
    [cols |-> <<SCORE, LOCATION>>,
     cells |-> <<{Twelve, Seven, Word, <<>>}, {<<"A", "b">>, <<"b">>}>>,
     maxrows |-> MaxQueryRows]

LocationOnly ==
    [cols |-> <<LOCATION>>,
     cells |-> <<{<<"A", "b">>, <<"b">>, <<>>}>>,
     maxrows |-> MaxQueryRows]

AllColumns ==
    [cols |-> <<SCORE, LOCATION, COMPANY, ROLE, DATE>>,
     cells |-> <<{Twelve, Word}, {<<"A", "b">>}, {<<"m">>, <<>>},
                 {<<"Y", "E", "S">>, <<"N", "O">>}, {Day2, Word}>>,
     maxrows |-> MaxWideRows]

\* the files of a layout
FilesOf(layout) ==
    LET row == {r \in [DOMAIN layout.cols -> UNION Range(layout.cells)] :
                   \A j \in DOMAIN layout.cols : r[j] \in layout.cells[j]}
    IN  {CsvFile(layout.cols, rows) : rows \in SeqsUpTo(row, layout.maxrows)}

FilterFiles == FilesOf(ScoreLocation) \cup FilesOf(LocationOnly) \cup FilesOf(AllColumns)

LocationLists == {<<>>, <<<<".">>>>, <<<<"a">>>>, <<<<"x">>, <<"B">>>>}

FilterArgs ==
    [min_score : {<<>>, <<10>>},
     max_score : {<<>>, <<10>>},
     locations : LocationLists,
     companies : {<<>>, <<<<"M">>>>},
     current_role_only : BOOLEAN,
     found_after_date : {<<>>, <<Day1>>},
     limit : {<<>>, <<0>>, <<1>>}]

ExportArgs ==
    [min_score : {<<>>, <<10>>},
     locations : {<<>>, <<<<"a">>>>},
     companies : {<<>>, <<<<"M">>>>},
     columns : {<<>>, <<SCORE>>, <<LOCATION, SCORE>>, <<"Name", SCORE>>}]

InitFilter ==
    /\ file \in FilterFiles
    /\ out = NoFile
    /\ last = NoCall

\* a call of filter_profiles, the first call of the run (the calls of these runs
\* read the file at csv_path and leave it as it is)
FilterProfiles ==
    \E a \in FilterArgs :
        /\ last = NoCall
        /\ last' = [op |-> "filter", args |-> a, ret |-> filter_profiles(file, a)]
        /\ UNCHANGED <<file, out>>

\* a call of export_segment, the first call of the run
ExportSegment ==
    \E a \in ExportArgs :
        LET r == export_segment(file, out, a)
        IN  /\ last = NoCall
            /\ out' = r.out
            /\ last' = [op |-> "export", args |-> a, ret |-> r.ret]
            /\ UNCHANGED file

NextFilter == FilterProfiles \/ ExportSegment

SpecFilter == InitFilter /\ [][NextFilter]_vars

----------------------------------------------------------------------------
(* Properties of filter_profiles and export_segment, under SpecFilter. *)

\* the cell of a returned record under column c
Field(ret, i, c) == ret.rows[i][IndexOf(ret.cols, c)]

\* C3: every row filter_profiles returns for min_score = S has a numeric
\* `v2 Score` >= S, the score of a row of the file whose score cell is a number;
\* a row whose score is missing or not a number is never returned.
C3_MinScoreRespected ==
    (last.op = "filter" /\ last.args.min_score # <<>>)
    => \A i \in DOMAIN last.ret.rows :
          /\ SCORE \in Range(last.ret.cols)
          /\ Field(last.ret, i, SCORE).k = "num"
          /\ Field(last.ret, i, SCORE).n >= last.args.min_score[1]
          /\ \E h \in DOMAIN file.rows :
                LET t == file.rows[h][IndexOf(file.cols, SCORE)]
                IN  IsInt(t) /\ ParseInt(t) = Field(last.ret, i, SCORE).n

\* filter_profiles ran with min_score alone on a file of two rows, one with a
\* score that is missing or not a number, and returned the other row
C3_Witness ==
    /\ last.op = "filter"
    /\ last.args = [min_score |-> <<10>>, max_score |-> <<>>, locations |-> <<>>,
                    companies |-> <<>>, current_role_only |-> FALSE,
                    found_after_date |-> <<>>, limit |-> <<>>]
    /\ file.cols = <<SCORE, LOCATION>>
    /\ Len(file.rows) = 2
    /\ \E h \in DOMAIN file.rows : file.rows[h][1] \in {Word, <<>>}
    /\ Len(last.ret.rows) = 1

\* C4: every row filter_profiles returns for locations = [L, ...] has a
\* `Location` that contains one of the entries as a literal substring, compared
\* case-insensitively.
C4_LocationsAreLiteral ==
    (last.op = "filter" /\ last.ret.status = "ok" /\ last.args.locations # <<>>)
    => \A i \in DOMAIN last.ret.rows :
          \E L \in Range(last.args.locations) :
             Contains(Lower(Field(last.ret, i, LOCATION).s), Lower(L))

\* the scores of the returned records do not increase, and the records without
\* a score come last
SortedByScore(ret) ==
    \A i, j \in DOMAIN ret.rows :
       i < j =>
          \/ Field(ret, j, SCORE).k # "num"
          \/ /\ Field(ret, i, SCORE).k = "num"
             /\ Field(ret, i, SCORE).n >= Field(ret, j, SCORE).n

\* C9: the result of filter_profiles is sorted by score, largest first and
\* missing scores last, when the file has a `v2 Score` column, and for every
\* supplied limit N >= 0 it is the first min(N, m) rows of the m rows the same
\* call returns without a limit.
C9_SortedThenLimited ==
    (last.op = "filter" /\ last.ret.status = "ok")
    => /\ SCORE \in Range(last.ret.cols) => SortedByScore(last.ret)
       /\ last.args.limit # <<>>
             => last.ret.rows =
                   head(filter_profiles(file, [last.args EXCEPT !.limit = <<>>]).rows,
                        last.args.limit[1])

\* the number a score cell of a written file holds ("12.0" and "12" are 12)
WrittenNumber(t) ==
    IF Len(t) > 2 /\ SubSeq(t, Len(t) - 1, Len(t)) = <<".", "0">>
    THEN SubSeq(t, 1, Len(t) - 2)
    ELSE t

\* every row of the destination file has a score >= min_score, when min_score
\* was supplied and the score column was written
WrittenScoresRespectMin ==
    (last.args.min_score # <<>> /\ SCORE \in Range(out.cols))
    => \A i \in DOMAIN out.rows :
          LET t == WrittenNumber(out.rows[i][IndexOf(out.cols, SCORE)])
          IN  IsInt(t) /\ ParseInt(t) >= last.args.min_score[1]

\* export_segment ran with a column list and wrote at least one row
ExportedWithColumns ==
    /\ last.op = "export"
    /\ last.args.columns # <<>>
    /\ last.ret.profiles_exported > 0

\* C6 as stated: the header of the written file is exactly the requested column
\* list, in the requested order, and every written score is >= min_score.
C6_HeaderIsRequestedList ==
    ExportedWithColumns
    => /\ out.exists
       /\ out.cols = last.args.columns
       /\ WrittenScoresRespectMin

\* C6 as amended: the header of the written file is the requested column list
\* without the columns the source lacks, in the requested order, and every
\* written score is >= min_score.
C6_HeaderIsRequestedPresent ==
    ExportedWithColumns
    => /\ out.exists
       /\ out.cols = SelectSeq(last.args.columns, LAMBDA c : c \in Range(file.cols))
       /\ last.ret.columns_included = out.cols
       /\ Len(out.rows) = last.ret.profiles_exported
       /\ WrittenScoresRespectMin

\* export_segment ran with min_score and a column list naming a column the
\* source lacks, and wrote a file with the other requested column
C6_Witness ==
    /\ ExportedWithColumns
    /\ last.args.columns = <<"Name", SCORE>>
    /\ last.args.min_score = <<10>>
    /\ out.cols = <<SCORE>>
    /\ Len(file.rows) = 2
    /\ Len(out.rows) = 1

----------------------------------------------------------------------------
(* search_profiles. *)

DefaultSearchColumns == <<"Headline", COMPANY, "Match Reason", ROLE>>

\* str.contains(term, case=case_sensitive, regex=False) of one text
ContainsTerm(text, term, case_sensitive) ==
    IF case_sensitive THEN Contains(text, term)
    ELSE Contains(Lower(text), Lower(term))

\* the loop over search_cols: the rows whose mask is set
MaskStage(df, search_cols, term, case_sensitive) ==
    FilterRows(df, LAMBDA r :
        \E c \in Range(search_cols) :
           ContainsTerm(astype_str(r[IndexOf(df.cols, c)]), term, case_sensitive))

\* if 'v2 Score' in result_df.columns: to_numeric, then sort_values
NumericSortStage(df) ==
    IF HasCol(df, SCORE) THEN SortStage(NumericColumn(df, SCORE)) ELSE df

\* search_profiles from search_cols on, for the frame read from the file
SearchFrame(df, a) ==
    Records(LimitStage(
        NumericSortStage(
            MaskStage(df,
                      SelectSeq(IF a.columns # <<>> THEN a.columns
                                ELSE DefaultSearchColumns,
                                LAMBDA c : HasCol(df, c)),
                      a.search_term, a.case_sensitive)),
        a.limit))

\* search_profiles(csv_path, search_term, columns, case_sensitive, limit)
search_profiles(f, a) ==
    IF ~f.exists THEN NoRecords ELSE SearchFrame(Loaded(f), a)

----------------------------------------------------------------------------
(* The inputs of the search runs. *)

HeadlineCompany ==
    [cols |-> <<"Headline", COMPANY>>,
     cells |-> <<{<<"m">>, <<"a", "n">>, <<>>}, {<<"M", "a">>, <<>>}>>,
     maxrows |-> MaxQueryRows]

ScoreCompany ==
    [cols |-> <<SCORE, COMPANY>>,
     cells |-> <<{Twelve, Seven, <<>>}, {<<"M", "a">>, <<>>}>>,
     maxrows |-> MaxQueryRows]

SearchFiles == {NoFile} \cup FilesOf(HeadlineCompany) \cup FilesOf(ScoreCompany)

SearchArgs ==
    [search_term : {<<"a">>, <<"m">>, <<"M">>, <<"a", "n">>, <<"z">>},
     columns : {<<>>, <<COMPANY>>, <<"Name", "Headline">>},
     case_sensitive : BOOLEAN,
     limit : {<<>>, <<0>>, <<1>>}]

InitSearch ==
    /\ file \in SearchFiles
    /\ out = NoFile
    /\ last = NoCall

\* a call of search_profiles, the first call of the run
SearchProfiles ==
    \E a \in SearchArgs :
        /\ last = NoCall
        /\ last' = [op |-> "search", args |-> a, ret |-> search_profiles(file, a)]
        /\ UNCHANGED <<file, out>>

NextSearch == SearchProfiles

SpecSearch == InitSearch /\ [][NextSearch]_vars

----------------------------------------------------------------------------
(* Properties of search_profiles, under SpecSearch. *)

\* the columns a call searches: the given ones, or the default ones, that the
\* file has
SearchedColumns(f, a) ==
    {c \in Range(IF a.columns # <<>> THEN a.columns ELSE DefaultSearchColumns) :
        c \in Range(f.cols)}

\* the rows of the file in which the term occurs in a searched cell that is not
\* missing
MatchingRows(f, a) ==
    {i \in DOMAIN f.rows :
        \E c \in SearchedColumns(f, a) :
           LET t == f.rows[i][IndexOf(f.cols, c)]
           IN  t \notin NaValues /\ ContainsTerm(t, a.search_term, a.case_sensitive)}

\* C5: without a limit, search_profiles returns exactly the rows in which the
\* term occurs as a literal substring (case-insensitively unless case_sensitive)
\* in a searched cell that is not missing; a missing cell never makes a row
\* match.
C5_SearchMatchesNonNullCells ==
    (last.op = "search" /\ last.args.limit = <<>>)
    => Len(last.ret.rows) = Cardinality(MatchingRows(file, last.args))

----------------------------------------------------------------------------
(* get_csv_stats. *)

SIZE == "Company Size"

\* the 10 of head(10)
TopN == 10

\* the non-missing cells of a column
dropna(col) == {i \in DOMAIN col : ~IsNull(col[i])}

\* round(float(x.mean()), 2) of the numeric cells of a column, in hundredths:
\* NaN when there is none; a tie goes to the even hundredth
mean_rounded(col, present) ==
    IF present = {} THEN [nan |-> TRUE, hundredths |-> 0]
    ELSE LET Sum[S \in SUBSET present] ==
                 IF S = {} THEN 0
                 ELSE LET i == CHOOSE j \in S : TRUE
                      IN  col[i].n + Sum[S \ {i}]
             cnt == Cardinality(present)
             q == (100 * Sum[present]) \div cnt
             rem == (100 * Sum[present]) % cnt
         IN  [nan |-> FALSE,
              hundredths |-> IF 2 * rem > cnt \/ (2 * rem = cnt /\ q % 2 = 1)
                             THEN q + 1 ELSE q]

\* the four counters of score_dist
score_dist(col) ==
    LET Count(lo, hi) ==
            Cardinality({i \in dropna(col) : col[i].n >= lo /\ col[i].n < hi})
        top == Cardinality({i \in dropna(col) : col[i].n >= 20})
        low == Cardinality({i \in dropna(col) : col[i].n < 10})
    IN  [b \in {"20+", "15-19", "10-14", "<10"} |->
            CASE b = "20+" -> top
              [] b = "15-19" -> Count(15, 20)
              [] b = "10-14" -> Count(10, 15)
              [] OTHER -> low]

\* lines 113-124: avg_score and score_dist
ScoreStats(df) ==
    IF HasCol(df, SCORE)
    THEN [avg_score |-> mean_rounded(Column(NumericColumn(df, SCORE), SCORE),
                                     dropna(Column(NumericColumn(df, SCORE), SCORE))),
          score_distribution |-> score_dist(Column(NumericColumn(df, SCORE), SCORE))]
    ELSE [avg_score |-> [nan |-> FALSE, hundredths |-> 0],
          score_distribution |-> <<>>]

\* {str(k): int(v)} of x.value_counts(): each value that occurs, with the number
\* of cells that hold it; missing cells are not counted
value_counts(col) ==
    [v \in {col[i].s : i \in dropna(col)} |->
        Cardinality({i \in dropna(col) : col[i].s = v})]

\* the first n distinct values of a column, in the order of the rows
first_values(col, n) ==
    {col[i].s : i \in {i \in dropna(col) :
        Cardinality({col[h].s : h \in {h \in dropna(col) : h < i}} \ {col[i].s}) < n}}

\* value_counts without the sort by count, then head(n)
value_counts_head_unsorted(col, n) ==
    {[v \in first_values(col, n) |-> value_counts(col)[v]]}

\* the results x.value_counts().head(n) can give: value_counts sorts by count,
\* descending, and the order among equal counts is not specified, so head keeps
\* every value with fewer than n values at least as frequent, and fills up with
\* values of the next count
value_counts_head(col, n) ==
    LET counts == value_counts(col)
        sure == {v \in DOMAIN counts :
                    Cardinality({u \in DOMAIN counts : counts[u] >= counts[v]}) <= n}
        ties == {v \in DOMAIN counts \ sure :
                    Cardinality({u \in DOMAIN counts : counts[u] > counts[v]}) < n}
    IN  {[v \in sure \cup T |-> counts[v]] :
            T \in {T \in SUBSET ties : Cardinality(T) = n - Cardinality(sure)
                                       \/ (ties = {} /\ T = {})}}

\* lines 132-136: the earliest and the latest date of the column, "" when no cell
\* is a date
date_range(col) ==
    LET dates == {to_datetime(col[i]).n : i \in {i \in DOMAIN col : ~IsNull(to_datetime(col[i]))}}
    IN  IF dates = {} THEN [earliest |-> <<>>, latest |-> <<>>]
        ELSE [earliest |-> FormatDate(CHOOSE d \in dates : \A e \in dates : d <= e),
              latest |-> FormatDate(CHOOSE d \in dates : \A e \in dates : d >= e)]

\* line 138: the cells that start with YES
current_role_count(col) ==
    Cardinality({i \in DOMAIN col :
        col[i].k = "str" /\ StartsWith(col[i].s, <<"Y", "E", "S">>)})

\* lines 111-138 but for location_breakdown, once every column is found
OtherStats(df) ==
    [status |-> "ok",
     total_profiles |-> Len(df.rows),
     avg_score |-> ScoreStats(df).avg_score,
     score_distribution |-> ScoreStats(df).score_distribution,
     location_breakdown |-> <<>>,
     company_size_breakdown |-> value_counts(Column(df, SIZE)),
     found_date_range |-> date_range(Column(df, DATE)),
     current_role_count |-> current_role_count(Column(df, ROLE))]

\* the results with each location_breakdown line 126 can give
WithLocations(stats, breakdowns) ==
    {[stats EXCEPT !.location_breakdown = lb] : lb \in breakdowns}

\* get_csv_stats from line 111 on, for the frame read from the file: the
\* results it can give
StatsOf(df) ==
    IF \E c \in {LOCATION, SIZE, DATE, ROLE} : ~HasCol(df, c)
    THEN {[status |-> "KeyError"]}
    ELSE IF ROLE \notin df.obj THEN {[status |-> "AttributeError"]}
    ELSE WithLocations(OtherStats(df), value_counts_head(Column(df, LOCATION), TopN))

\* get_csv_stats(csv_path): the results it can give
get_csv_stats(f) ==
    IF ~f.exists THEN {FileNotFound} ELSE StatsOf(Loaded(f))

----------------------------------------------------------------------------
(* The inputs of the statistics runs. *)

StatsColumns == <<SCORE, LOCATION, SIZE, DATE, ROLE>>

\* tables long enough for head(10) to cut
MaxStatsRows == TopN + 2

\* the i-th location
Loc(i) == <<"c">> \o IntToText(i)

\* the long tables: row i has a location of its own or the one of row i - 1
LongTable(n, rep) ==
    CsvFile(StatsColumns,
            [i \in 1..n |-> <<Seven, IF i \in rep THEN Loc(i - 1) ELSE Loc(i),
                              <<"m">>, Day1, <<"Y", "E", "S">>>>])

LongTables ==
    UNION {{LongTable(n, rep) : rep \in SUBSET (2..n)} : n \in 0..MaxStatsRows}

WideStats ==
    [cols |-> StatsColumns,
     cells |-> <<{Twelve, Word}, {<<"b">>, <<>>}, {<<"m">>, <<>>}, {Day2, Word},
                 {<<"Y", "E", "S">>, <<>>}>>,
     maxrows |-> MaxWideRows]

NoScore ==
    [cols |-> <<LOCATION, SIZE, DATE, ROLE>>,
     cells |-> <<{<<"b">>}, {<<"m">>}, {Day1, Day2}, {<<"N", "O">>}>>,
     maxrows |-> MaxQueryRows]

ScoreOnly ==
    [cols |-> <<SCORE>>, cells |-> <<{Twelve, Seven}>>, maxrows |-> MaxQueryRows]

StatsFiles ==
    {NoFile} \cup LongTables \cup FilesOf(WideStats) \cup FilesOf(NoScore)
        \cup FilesOf(ScoreOnly)

InitStats ==
    /\ file \in StatsFiles
    /\ out = NoFile
    /\ last = NoCall

\* a call of get_csv_stats, the first call of the run
GetCsvStats ==
    \E ret \in get_csv_stats(file) :
        /\ last = NoCall
        /\ last' = [op |-> "stats", args |-> <<>>, ret |-> ret]
        /\ UNCHANGED <<file, out>>

NextStats == GetCsvStats

SpecStats == InitStats /\ [][NextStats]_vars

----------------------------------------------------------------------------
(* Properties of get_csv_stats, under SpecStats. *)

\* the rows of the file whose Location is the text v
RowsAt(f, v) == {i \in DOMAIN f.rows : f.rows[i][IndexOf(f.cols, LOCATION)] = v}

\* the Location values of the file: the texts of the cells that are not missing
LocationValues(f) ==
    {f.rows[i][IndexOf(f.cols, LOCATION)] : i \in DOMAIN f.rows} \ NaValues

ReturnedStats == last.op = "stats" /\ file.exists /\ last.ret.status = "ok"

\* C7: the statistics get_csv_stats returns for an existing table have
\* total_profiles equal to the number of rows, and a location_breakdown of at
\* most 10 entries (all of them when the table has at most 10 Location values)
\* whose keys are Location values of the table, each with the exact number of
\* rows that have it, and no omitted value has more rows than an included one.
C7_TotalAndTopLocations ==
    ReturnedStats =>
        LET lb == last.ret.location_breakdown
        IN  /\ last.ret.total_profiles = Len(file.rows)
            /\ DOMAIN lb \subseteq LocationValues(file)
            /\ Cardinality(DOMAIN lb) <= 10
            /\ Cardinality(LocationValues(file)) <= 10 => DOMAIN lb = LocationValues(file)
            /\ \A v \in DOMAIN lb : lb[v] = Cardinality(RowsAt(file, v))
            /\ \A v \in DOMAIN lb : \A o \in LocationValues(file) \ DOMAIN lb :
                  Cardinality(RowsAt(file, o)) <= lb[v]

\* get_csv_stats returned for a table of more than 10 Location values, and the
\* breakdown holds a value of two rows and leaves out a value of one row
C7_Witness ==
    /\ ReturnedStats
    /\ Cardinality(LocationValues(file)) > 10
    /\ Cardinality(DOMAIN last.ret.location_breakdown) = 10
    /\ \E v \in DOMAIN last.ret.location_breakdown : last.ret.location_breakdown[v] = 2
    /\ \E o \in LocationValues(file) \ DOMAIN last.ret.location_breakdown :
          Cardinality(RowsAt(file, o)) = 1

\* C8: get_csv_stats, called on an existing file that lacks one of the domain
\* columns, completes with a normal result.
C8_NoColumnRequired ==
    (last.op = "stats" /\ file.exists
        /\ \E c \in {SCORE, LOCATION, COMPANY, SIZE, ROLE, DATE} : c \notin Range(file.cols))
    => last.ret.status = "ok"

=============================================================================
